---- MODULE Spec2Model ----
(***************************************************************************)
(* A model of packhub's package classifier (src/src/package.rs), selector   *)
(* (src/src/selector.rs) and index generators (src/src/apt/index.rs,       *)
(* src/src/rpm/index.rs).                                                  *)
(*                                                                         *)
(* A Rust &str is modelled as a sequence of one-character strings, so that *)
(* the character scans of the source are scans of the sequence.            *)
(***************************************************************************)
EXTENDS Integers, Sequences, FiniteSets, TLC

VARIABLES
    name,       \* classifier: the file name handed to detect_package
    cpc,        \* classifier: "start", then "done" once detect_package returned
    pkg,        \* classifier: what detect_package returned
    tok,        \* version extraction: the section (token) of a file name
    vpc,        \* version extraction: "start", then "done" once parse_version returned
    sfx,        \* version extraction: what split_at_numeric returned
    pver,       \* version extraction: what parse_version returned
    mpc,        \* section match: "start", then "done" once the match arm ran
    vdist,      \* section match: `dist` after the match on the section
    pool,       \* selector: the packages handed to select_packages (`from`)
    req,        \* selector: the requested distribution (`dist`)
    selpc,      \* selector: "start", then "done" once select_packages returned
    selected,   \* selector: the returned references, as indices into pool
    meta,       \* packages: tipe and dist of each package, set by detect_package
    cell,       \* packages: the contents of each package's `data` mutex
    lock,       \* packages: the holder of each package's `data` mutex, or "free"
    wr,         \* the threads that call download and set_data
    rd,         \* the threads that call data
    cmp,        \* the threads that compare two packages with ==
    created,    \* index generation: `created` of each package, in seconds
    now,        \* index generation: the wall clock, in half seconds
    slice,      \* index generation: the packages handed to AptIndices::new
    gpc,        \* index generation: "idle", "meta" (collecting stanzas), "done"
    gop,        \* index generation: "packages", "release" or "repomd"
    date,       \* index generation: `date` of get_release_index
    seen,       \* index generation: what package.data() returned, per package read
    stanzas,    \* index generation: the DebianPackage values collected so far
    doc,        \* index generation: the document returned
    rpms        \* index generation: the packages handed to get_repomd_index

classVars == <<name, cpc, pkg>>
verVars == <<tok, vpc, sfx, pver, mpc, vdist>>
selVars == <<pool, req, selpc, selected>>
pkgVars == <<meta, cell, lock, wr, rd, cmp>>
idxVars == <<created, now, slice, gpc, gop, date, seen, stanzas, doc, rpms>>
vars == <<classVars, verVars, selVars, pkgVars, idxVars>>

(***************************************************************************)
(* Option<T> and Result<T, ()>: the empty sequence is None / Err, the      *)
(* one-element sequence <<x>> is Some(x) / Ok(x).                          *)
(***************************************************************************)
None == <<>>
Some(x) == <<x>>
IsSome(o) == Len(o) = 1
Unwrap(o) == o[1]

(***************************************************************************)
(* Bounds of the model.                                                    *)
(***************************************************************************)
MaxTokens == 2
MaxPool == 3
PayloadLen == 2
NPayloads == 2
MaxCreated == 1
MaxTime == 2
MaxSlice == 2
MaxPkgTime == 2
MaxRpms == 2

(***************************************************************************)
(* Characters and the strings the inputs are built from.                   *)
(***************************************************************************)
Digits == {"0", "1", "2", "3", "4", "5", "6", "7", "8", "9"}
Letters == {"a", "b", "d", "e", "f", "g", "i", "k", "m", "n", "o", "p", "r",
            "s", "t", "u", "x"}

DigitVal(c) ==
    CASE c = "0" -> 0 [] c = "1" -> 1 [] c = "2" -> 2 [] c = "3" -> 3
      [] c = "4" -> 4 [] c = "5" -> 5 [] c = "6" -> 6 [] c = "7" -> 7
      [] c = "8" -> 8 [] c = "9" -> 9

is_ascii_alphabetic(c) == c \in Letters
is_ascii_digit(c) == c \in Digits

kwUbuntu == <<"u", "b", "u", "n", "t", "u">>
kwDebian == <<"d", "e", "b", "i", "a", "n">>
kwFedora == <<"f", "e", "d", "o", "r", "a">>

\* s.contains(kw)
Contains(s, kw) ==
    \E i \in 1..(Len(s) + 1) :
        /\ i + Len(kw) - 1 <= Len(s)
        /\ SubSeq(s, i, i + Len(kw) - 1) = kw

Reverse(s) == [i \in 1..Len(s) |-> s[Len(s) + 1 - i]]

SetMax(S) == CHOOSE x \in S : \A y \in S : y <= x
SetMin(S) == CHOOSE x \in S : \A y \in S : x <= y

(***************************************************************************)
(* split_extention: scan the name from its end to the last '.'; `index` is *)
(* the 0-based byte index of that '.', and stays 0 when there is none.     *)
(***************************************************************************)
ExtIndex(s) ==
    LET dots == {i \in 1..Len(s) : s[i] = "."}
    IN  IF dots = {} THEN 0 ELSE SetMax(dots) - 1

\* the characters pushed to `str`: those after the last '.', last one first
ExtReversed(s) ==
    LET dots == {i \in 1..Len(s) : s[i] = "."}
        from == IF dots = {} THEN 1 ELSE SetMax(dots) + 1
    IN  Reverse(SubSeq(s, from, Len(s)))

split_extention(s) ==
    IF ExtIndex(s) = 0 THEN None
    ELSE IF ExtReversed(s) = <<"b", "e", "d">>
            THEN Some([tipe |-> "Deb", splitted |-> SubSeq(s, 1, ExtIndex(s))])
    ELSE IF ExtReversed(s) = <<"m", "p", "r">>
            THEN Some([tipe |-> "Rpm", splitted |-> SubSeq(s, 1, ExtIndex(s))])
    ELSE None

(***************************************************************************)
(* split_at_numeric and parse_version.                                     *)
(***************************************************************************)
\* the first position whose character is alphabetic and whose successor is a digit
Boundaries(s) ==
    {i \in 1..(Len(s) - 1) : is_ascii_alphabetic(s[i]) /\ is_ascii_digit(s[i + 1])}

split_at_numeric_last(s) ==
    IF Boundaries(s) = {} THEN None
    ELSE Some(SubSeq(s, SetMax(Boundaries(s)) + 1, Len(s)))

split_at_numeric(s) ==
    IF Boundaries(s) = {} THEN None
    ELSE Some(SubSeq(s, SetMin(Boundaries(s)) + 1, Len(s)))

\* str::split on '.'
RECURSIVE SplitOn(_, _)
SplitOn(s, seps) ==
    LET hits == {i \in 1..Len(s) : s[i] \in seps}
    IN  IF hits = {} THEN <<s>>
        ELSE <<SubSeq(s, 1, SetMin(hits) - 1)>>
                 \o SplitOn(SubSeq(s, SetMin(hits) + 1, Len(s)), seps)

RECURSIVE DecimalValue(_)
DecimalValue(s) ==
    IF s = <<>> THEN 0
    ELSE 10 * DecimalValue(SubSeq(s, 1, Len(s) - 1)) + DigitVal(s[Len(s)])

IsNumber(s) == s # <<>> /\ \A i \in 1..Len(s) : is_ascii_digit(s[i])

\* lenient_semver::parse on one to three dot-separated numbers: missing minor
\* and patch are 0 and leading zeros are dropped ("22.04" is 22.4.0).  Any
\* other text is outside what the inputs of this model contain and is an error.
lenient_parse(s) ==
    LET parts == SplitOn(s, {"."})
        num(i) == IF i <= Len(parts) THEN DecimalValue(parts[i]) ELSE 0
    IN  IF Len(parts) <= 3 /\ \A i \in 1..Len(parts) : IsNumber(parts[i])
        THEN Some(<<num(1), num(2), num(3)>>)
        ELSE None

\* parse(split_at_numeric(dist)?).ok()
parse_version(dist) ==
    IF split_at_numeric(dist) = None THEN None
    ELSE lenient_parse(Unwrap(split_at_numeric(dist)))

(***************************************************************************)
(* Package::detect_package: the sections of the stem are scanned in order  *)
(* and every section that names a distribution assigns `dist`.             *)
(***************************************************************************)
SectionDist(dst, dist) ==
    IF Contains(dst, kwUbuntu)
        THEN Some([family |-> "Ubuntu", version |-> parse_version(dst)])
    ELSE IF Contains(dst, kwDebian)
        THEN Some([family |-> "Debian", version |-> parse_version(dst)])
    ELSE IF Contains(dst, kwFedora)
        THEN Some([family |-> "Fedora", version |-> parse_version(dst)])
    ELSE dist

RECURSIVE ScanSectionsFirst(_, _)
ScanSectionsFirst(sections, dist) ==
    IF sections = <<>> \/ dist # None THEN dist
    ELSE ScanSectionsFirst(Tail(sections), SectionDist(Head(sections), dist))

RECURSIVE ScanSections(_, _)
ScanSections(sections, dist) ==
    IF sections = <<>> THEN dist
    ELSE ScanSections(Tail(sections), SectionDist(Head(sections), dist))

detect_package(n) ==
    IF split_extention(n) = None THEN None
    ELSE LET tipe == Unwrap(split_extention(n)).tipe
             splitted == Unwrap(split_extention(n)).splitted
         IN  Some([tipe |-> tipe,
                   dist |-> ScanSections(SplitOn(splitted, {"-", "_"}), None)])

(***************************************************************************)
(* The file names the classifier is run on: up to MaxTokens tokens joined  *)
(* by '-' or '_', followed by an ending.                                   *)
(***************************************************************************)
NameTokens ==
    { <<"p", "k", "g">>,
      <<"2", ".", "0", ".", "0">>,
      <<"a", "m", "d", "6", "4">>,
      kwUbuntu,
      kwUbuntu \o <<"2", "2", ".", "0", "4">>,
      kwUbuntu \o <<"2", "0", ".", "0", "4">>,
      kwDebian \o <<"1", "1">>,
      kwFedora \o <<"3", "6">>,
      kwDebian \o kwUbuntu \o <<"9">> }

Endings ==
    { <<".", "d", "e", "b">>, <<".", "r", "p", "m">>, <<".", "s", "n", "a", "p">>,
      <<".", "b", "e", "d">>, <<"d", "e", "b">>, <<>> }

RECURSIVE Stems(_)
Stems(n) ==
    IF n = 0 THEN {<<>>}
    ELSE IF n = 1 THEN NameTokens
    ELSE {s \o <<sep>> \o t : s \in Stems(n - 1), sep \in {"-", "_"}, t \in NameTokens}

FileNames == {s \o e : s \in UNION {Stems(n) : n \in 0..MaxTokens}, e \in Endings}

(***************************************************************************)
(* The classifier as a state machine: a name is given, detect_package runs.*)
(***************************************************************************)
\* the parts of the state a specification does not use stay idle
ClassIdle == name = <<>> /\ cpc = "idle" /\ pkg = None
VerIdle ==
    /\ tok = <<>> /\ vpc = "idle" /\ sfx = None /\ pver = None
    /\ mpc = "idle" /\ vdist = None
SelIdle ==
    /\ pool = <<>> /\ req = [family |-> "Debian", version |-> None]
    /\ selpc = "idle" /\ selected = <<>>

PkgIdle ==
    /\ meta = <<>> /\ cell = <<>> /\ lock = <<>> /\ wr = <<>> /\ rd = <<>>
    /\ cmp = <<>>

NoDoc == [text |-> <<>>, date |-> 0, files |-> <<>>, data |-> <<>>, timestamp |-> 0]

IdxIdle ==
    /\ created = <<>> /\ now = 0 /\ slice = <<>> /\ gpc = "idle" /\ gop = "none"
    /\ date = 0 /\ seen = <<>> /\ stanzas = <<>> /\ doc = NoDoc /\ rpms = <<>>

InitClassify ==
    /\ name \in FileNames
    /\ cpc = "start"
    /\ pkg = None
    /\ VerIdle /\ SelIdle /\ PkgIdle /\ IdxIdle

DetectPackage ==
    /\ cpc = "start"
    /\ pkg' = detect_package(name)
    /\ cpc' = "done"
    /\ UNCHANGED <<name, verVars, selVars, pkgVars, idxVars>>

NextClassify == DetectPackage

SpecClassify == InitClassify /\ [][NextClassify]_vars

(***************************************************************************)
(* Version extraction as a state machine: a section is given; parse_version *)
(* runs on it, and so does the match of detect_package's loop body.        *)
(***************************************************************************)
VersionPrefixes == {<<>>, <<"x">>, <<"7">>, <<"a", "1">>}
VersionWords == {kwUbuntu, kwDebian, kwFedora, <<"p", "k", "g">>}
VersionSuffixes ==
    { <<>>, <<"9">>, <<"3", "7">>, <<"2", "2", ".", "0", "4">>,
      <<"2", "4", ".", "1", "0">>, <<"2", ".", "0", ".", "1">>, <<".", "5">> }

VersionTokens ==
    {p \o w \o v : p \in VersionPrefixes, w \in VersionWords, v \in VersionSuffixes}

InitVersion ==
    /\ tok \in VersionTokens
    /\ vpc = "start" /\ sfx = None /\ pver = None
    /\ mpc = "start" /\ vdist = None
    /\ ClassIdle /\ SelIdle /\ PkgIdle /\ IdxIdle

ParseVersion ==
    /\ vpc = "start"
    /\ sfx' = split_at_numeric(tok)
    /\ pver' = parse_version(tok)
    /\ vpc' = "done"
    /\ UNCHANGED <<tok, mpc, vdist, classVars, selVars, pkgVars, idxVars>>

MatchSection ==
    /\ mpc = "start"
    /\ vdist' = SectionDist(tok, None)
    /\ mpc' = "done"
    /\ UNCHANGED <<tok, vpc, sfx, pver, classVars, selVars, pkgVars, idxVars>>

NextVersion == ParseVersion \/ MatchSection

SpecVersion == InitVersion /\ [][NextVersion]_vars

(***************************************************************************)
(* select_packages.  The pool holds packages classified by detect_package; *)
(* the result is a Vec of references into the pool, modelled as the        *)
(* sequence of their indices.                                              *)
(***************************************************************************)
\* Type::matches_distribution: Deb serves Ubuntu and Debian, Rpm serves Fedora
matches_distribution(tipe, dist) ==
    \/ tipe = "Deb" /\ dist.family \in {"Ubuntu", "Debian"}
    \/ tipe = "Rpm" /\ dist.family = "Fedora"

Indices(s) == [i \in 1..Len(s) |-> i]

FamilyFilteredReversed(from, dist) ==
    Reverse(SelectSeq(Indices(from), LAMBDA i : matches_distribution(from[i].tipe, dist)))

\* the first loop: the packages whose type serves the distribution
FamilyFiltered(from, dist) ==
    SelectSeq(Indices(from), LAMBDA i : matches_distribution(from[i].tipe, dist))

SelectiveAllFamilies(from, dist) ==
    SelectSeq(FamilyFiltered(from, dist), LAMBDA i : Some(dist) = from[i].dist)

\* the second loop, run for Ubuntu and for Fedora only
Selective(from, dist) ==
    IF dist.family \in {"Ubuntu", "Fedora"}
    THEN SelectSeq(FamilyFiltered(from, dist), LAMBDA i : Some(dist) = from[i].dist)
    ELSE <<>>

select_packages_no_refine(from, dist) == FamilyFiltered(from, dist)

select_packages_no_fallback(from, dist) == Selective(from, dist)

select_packages(from, dist) ==
    IF Selective(from, dist) # <<>> THEN Selective(from, dist)
    ELSE FamilyFiltered(from, dist)

pkgDash == <<"p", "k", "g", "-">>
extDeb == <<".", "d", "e", "b">>
extRpm == <<".", "r", "p", "m">>

PoolNames ==
    { pkgDash \o kwUbuntu \o <<"2", "0", ".", "0", "4">> \o extDeb,
      pkgDash \o kwUbuntu \o <<"2", "2", ".", "0", "4">> \o extDeb,
      pkgDash \o kwUbuntu \o extDeb,
      pkgDash \o <<"a", "m", "d", "6", "4">> \o extDeb,
      pkgDash \o kwDebian \o <<"1", "1">> \o extDeb,
      pkgDash \o kwFedora \o <<"3", "6">> \o extRpm,
      pkgDash \o <<"a", "m", "d", "6", "4">> \o extRpm,
      pkgDash \o kwUbuntu \o <<"2", "0", ".", "0", "4">> \o extRpm }

PoolPackages == {Unwrap(detect_package(n)) : n \in PoolNames}

Pools == UNION {[1..n -> PoolPackages] : n \in 0..MaxPool}

Requests ==
    [family : {"Ubuntu"}, version : {None, Some(<<20, 4, 0>>), Some(<<22, 4, 0>>),
                                     Some(<<18, 4, 0>>)}]
    \cup [family : {"Fedora"}, version : {None, Some(<<36, 0, 0>>), Some(<<38, 0, 0>>)}]
    \cup [family : {"Debian"}, version : {None, Some(<<11, 0, 0>>)}]

InitSelect ==
    /\ pool \in Pools
    /\ req \in Requests
    /\ selpc = "start"
    /\ selected = <<>>
    /\ ClassIdle /\ VerIdle /\ PkgIdle /\ IdxIdle

Select ==
    /\ selpc = "start"
    /\ selected' = select_packages(pool, req)
    /\ selpc' = "done"
    /\ UNCHANGED <<pool, req, classVars, verVars, pkgVars, idxVars>>

NextSelect == Select

SpecSelect == InitSelect /\ [][NextSelect]_vars

\* the pool packages of the requested family (by packaging type) whose
\* distribution equals the request
ExactMatches ==
    {i \in 1..Len(pool) : /\ matches_distribution(pool[i].tipe, req)
                          /\ pool[i].dist = Some(req)}
FamilyMatches == {i \in 1..Len(pool) : matches_distribution(pool[i].tipe, req)}

Ascending(s) == \A i, j \in 1..Len(s) : i < j => s[i] < s[j]
RangeOf(s) == {s[i] : i \in 1..Len(s)}

\* C1: for a request Ubuntu(v) or Fedora(v), when the pool holds a package of
\* the matching packaging type whose distribution equals the request, select
\* returns exactly the packages of that type with that exact distribution,
\* in pool order, and no other package.
C1_ExactMatchWins ==
    (selpc = "done" /\ req.family \in {"Ubuntu", "Fedora"} /\ ExactMatches # {}) =>
        /\ RangeOf(selected) = ExactMatches
        /\ Ascending(selected)

\* an exact match was returned and a package of the same family was left out
C1_Witness ==
    /\ selpc = "done" /\ req.family = "Ubuntu" /\ ExactMatches # {}
    /\ RangeOf(selected) = ExactMatches
    /\ FamilyMatches \ ExactMatches # {}

\* C2: for a request Ubuntu(v) or Fedora(v) with no exactly equal package in
\* the pool, select returns every pool package whose packaging type matches
\* the requested family, packages without distribution or version included;
\* the result is not empty when the pool holds a package of that family.
C2_FamilyFallback ==
    (selpc = "done" /\ req.family \in {"Ubuntu", "Fedora"} /\ ExactMatches = {}) =>
        /\ RangeOf(selected) = FamilyMatches
        /\ Ascending(selected)
        /\ FamilyMatches # {} => selected # <<>>

\* the fallback returned a package without distribution and one without
\* version for a request with a version absent from the pool
C2_Witness ==
    /\ selpc = "done" /\ req = [family |-> "Ubuntu", version |-> Some(<<18, 4, 0>>)]
    /\ ExactMatches = {}
    /\ \E i \in RangeOf(selected) : pool[i].dist = None
    /\ \E i \in RangeOf(selected) : IsSome(pool[i].dist) /\ Unwrap(pool[i].dist).version = None

\* C11: for a request Debian(v), with or without a version, select returns
\* every pool package whose packaging type is Deb, in pool order, and nothing
\* else, also when the pool holds a package whose distribution is exactly
\* Debian(v).
C11_DebianNoRefinement ==
    (selpc = "done" /\ req.family = "Debian") =>
        /\ RangeOf(selected) = FamilyMatches
        /\ Ascending(selected)
        /\ \A i \in RangeOf(selected) : pool[i].tipe = "Deb"

\* a pool with a package that is exactly Debian(v) and another Deb package
\* that is not, both returned
C11_Witness ==
    /\ selpc = "done" /\ req.family = "Debian" /\ IsSome(req.version)
    /\ ExactMatches # {}
    /\ FamilyMatches \ ExactMatches # {}
    /\ RangeOf(selected) = FamilyMatches

\* C12: for every pool and every request the result is a subsequence of the
\* pool (only pool elements, none twice, in pool order); the empty pool gives
\* the empty result; every package that equals the request exactly is
\* returned.
C12_SubsequenceOfPool ==
    selpc = "done" =>
        /\ RangeOf(selected) \subseteq 1..Len(pool)
        /\ Ascending(selected)
        /\ pool = <<>> => selected = <<>>
        /\ ExactMatches \subseteq RangeOf(selected)

\* two pool packages tie on the exact match, a third of the family does not,
\* and the two are returned in pool order
C12_Witness ==
    /\ selpc = "done" /\ req.family = "Ubuntu"
    /\ Cardinality(ExactMatches) = 2
    /\ FamilyMatches \ ExactMatches # {}
    /\ Len(selected) = 2 /\ selected[1] < selected[2]
    /\ RangeOf(selected) = ExactMatches

(***************************************************************************)
(* Package::download, Package::set_data and Package::data on shared        *)
(* packages.  `data: Mutex<Option<Vec<u8>>>` is a cell and a lock.  The    *)
(* assignment of a new buffer is not one machine step: the cell is written *)
(* byte by byte while the writer holds the lock.                           *)
(***************************************************************************)
Pkgs == {"a", "b"}
Writers == {"w1", "w2"}
Readers == {"r1"}

\* the buffers a fetch can deliver: PayloadLen copies of one byte value
Payloads == {[i \in 1..PayloadLen |-> v] : v \in 1..NPayloads}

EmptyCell == [some |-> FALSE, bytes |-> [i \in 1..PayloadLen |-> 0]]

\* the Option<Vec<u8>> a cell holds
CellValue(c) == IF c.some THEN Some(c.bytes) ELSE None

MetaChoices ==
    { Unwrap(detect_package(pkgDash \o kwUbuntu \o <<"2", "0", ".", "0", "4">> \o extDeb)),
      Unwrap(detect_package(pkgDash \o kwFedora \o <<"3", "6">> \o extRpm)) }

WrIdle == [pc |-> "idle", op |-> "none", p |-> "a", buf |-> <<>>, k |-> 0, res |-> "none"]
RdIdle == [p |-> "a", calls |-> 0, got |-> None]

Init ==
    /\ meta \in [Pkgs -> MetaChoices]
    /\ cell = [p \in Pkgs |-> EmptyCell]
    /\ lock = [p \in Pkgs |-> "free"]
    /\ wr = [w \in Writers |-> WrIdle]
    /\ rd = [r \in Readers |-> RdIdle]
    /\ cmp = <<>>
    /\ ClassIdle /\ VerIdle /\ SelIdle /\ IdxIdle

\* download(): the request is sent and the task awaits the response
Download(w, p) ==
    /\ wr[w].pc = "idle"
    /\ wr' = [wr EXCEPT ![w] = [WrIdle EXCEPT !.pc = "fetch", !.op = "download", !.p = p]]
    /\ UNCHANGED <<classVars, verVars, selVars, idxVars, cmp, meta, cell, lock, rd>>

\* reqwest::get(..).await?.bytes().await? delivered the bytes
FetchOk(w) ==
    /\ wr[w].pc = "fetch"
    /\ \E b \in Payloads : wr' = [wr EXCEPT ![w].buf = b, ![w].pc = "lock"]
    /\ UNCHANGED <<classVars, verVars, selVars, idxVars, cmp, meta, cell, lock, rd>>

DownloadFailedClears(w) ==
    /\ wr[w].pc = "fetch"
    /\ lock[wr[w].p] = "free"
    /\ cell' = [cell EXCEPT ![wr[w].p] = EmptyCell]
    /\ wr' = [wr EXCEPT ![w] = [WrIdle EXCEPT !.p = wr[w].p, !.res = "err"]]
    /\ UNCHANGED <<classVars, verVars, selVars, idxVars, cmp, meta, lock, rd>>

\* the request or the body failed: `?` returns the error, the cell is not touched
DownloadFailed(w) ==
    /\ wr[w].pc = "fetch"
    /\ wr' = [wr EXCEPT ![w] = [WrIdle EXCEPT !.p = wr[w].p, !.res = "err"]]
    /\ UNCHANGED <<classVars, verVars, selVars, idxVars, cmp, meta, cell, lock, rd>>

\* set_data(data)
SetData(w, p) ==
    /\ wr[w].pc = "idle"
    /\ \E b \in Payloads :
         wr' = [wr EXCEPT ![w] = [WrIdle EXCEPT !.pc = "lock", !.op = "set_data",
                                                !.p = p, !.buf = b]]
    /\ UNCHANGED <<classVars, verVars, selVars, idxVars, cmp, meta, cell, lock, rd>>

\* self.data.lock().unwrap() of the writers
LockData(w) ==
    /\ wr[w].pc = "lock"
    /\ lock[wr[w].p] = "free"
    /\ lock' = [lock EXCEPT ![wr[w].p] = w]
    /\ wr' = [wr EXCEPT ![w].pc = "write", ![w].k = 0]
    /\ UNCHANGED <<classVars, verVars, selVars, idxVars, cmp, meta, cell, rd>>

\* *guard = Some(data), one byte of it
WriteByte(w) ==
    /\ wr[w].pc = "write"
    /\ wr[w].k < PayloadLen
    /\ cell' = [cell EXCEPT ![wr[w].p] =
                    [some |-> TRUE,
                     bytes |-> [cell[wr[w].p].bytes EXCEPT ![wr[w].k + 1] = wr[w].buf[wr[w].k + 1]]]]
    /\ wr' = [wr EXCEPT ![w].k = wr[w].k + 1]
    /\ UNCHANGED <<classVars, verVars, selVars, idxVars, cmp, meta, lock, rd>>

\* the guard is dropped; download returns Ok(()), set_data returns
UnlockData(w) ==
    /\ wr[w].pc = "write"
    /\ wr[w].k = PayloadLen
    /\ lock' = [lock EXCEPT ![wr[w].p] = "free"]
    /\ wr' = [wr EXCEPT ![w] = [WrIdle EXCEPT !.p = wr[w].p,
                                 !.res = IF wr[w].op = "download" THEN "ok" ELSE "unit"]]
    /\ UNCHANGED <<classVars, verVars, selVars, idxVars, cmp, meta, cell, rd>>

DataNoLock(r, p) ==
    /\ rd' = [rd EXCEPT ![r] = [p |-> p, calls |-> 1, got |-> CellValue(cell[p])]]
    /\ UNCHANGED <<classVars, verVars, selVars, idxVars, cmp, meta, cell, lock, wr>>

\* data(): lock, clone, drop the guard; the call waits while the lock is held
Data(r, p) ==
    /\ lock[p] = "free"
    /\ rd' = [rd EXCEPT ![r] = [p |-> p, calls |-> 1, got |-> CellValue(cell[p])]]
    /\ UNCHANGED <<classVars, verVars, selVars, idxVars, cmp, meta, cell, lock, wr>>

Next ==
    \/ \E w \in Writers, p \in Pkgs : Download(w, p)
    \/ \E w \in Writers : FetchOk(w)
    \/ \E w \in Writers : DownloadFailed(w)
    \/ \E w \in Writers, p \in Pkgs : SetData(w, p)
    \/ \E w \in Writers : LockData(w)
    \/ \E w \in Writers : WriteByte(w)
    \/ \E w \in Writers : UnlockData(w)
    \/ \E r \in Readers, p \in Pkgs : Data(r, p)

Spec == Init /\ [][Next]_vars

\* C5: whatever the interleaving of downloads and reads of a package, every
\* value data() has returned is None or the whole buffer of one download, and
\* a cell nobody is writing holds None or the whole buffer of one download.
C5_NoTornRead ==
    /\ \A r \in DOMAIN rd : rd[r].got = None \/ Unwrap(rd[r].got) \in Payloads
    /\ \A p \in DOMAIN cell :
          lock[p] = "free" => (CellValue(cell[p]) = None \/ cell[p].bytes \in Payloads)

\* data() returned a whole buffer of a package that one download is half way
\* through overwriting with another buffer while a second download waits
C5_Witness ==
    \E r \in DOMAIN rd, w1, w2 \in DOMAIN wr :
        /\ w1 # w2 /\ wr[w1].p = rd[r].p /\ wr[w2].p = rd[r].p
        /\ IsSome(rd[r].got)
        /\ wr[w1].pc = "write" /\ wr[w1].k = 1 /\ wr[w1].buf # Unwrap(rd[r].got)
        /\ wr[w2].pc = "lock" /\ wr[w2].op = "download" /\ wr[w2].buf # wr[w1].buf

\* C6: raw data is empty at construction and, through downloads that succeed
\* or fail, set_data and data, a populated slot is never empty again; the
\* packaging type and the distribution of a package never change.
C6_Monotone ==
    /\ \A p \in DOMAIN cell : CellValue(cell[p]) = None
    /\ [][\A p \in DOMAIN cell :
             /\ IsSome(CellValue(cell[p])) => IsSome(CellValue(cell'[p]))
             /\ meta'[p] = meta[p]]_vars

\* a download of a populated package failed and data() still returned its buffer
C6_Witness ==
    \E w \in DOMAIN wr, r \in DOMAIN rd :
        /\ wr[w].res = "err" /\ wr[w].pc = "idle" /\ wr[w].p = rd[r].p
        /\ cell[rd[r].p].some /\ IsSome(rd[r].got)

(***************************************************************************)
(* impl PartialEq for Package.  `==` compares tipe, dist, url and ver      *)
(* with short-circuiting &&, then locks self.data, then other.data, and    *)
(* compares the two cells and `created` while it holds both guards.  The   *)
(* comparisons run on their own threads, next to download and data.        *)
(***************************************************************************)
Comparers == {"e1", "e2"}
Downloaders == {"w1"}
Urls == {"u1", "u2"}

\* the fields of a Package other than `data`
PackageFields ==
    {[tipe |-> m.tipe, dist |-> m.dist, url |-> u, ver |-> "1.0", created |-> 0] :
        m \in MetaChoices, u \in Urls}

CmpIdle == [pc |-> "idle", l |-> "a", r |-> "a", res |-> None]

InitEq ==
    /\ meta \in [Pkgs -> PackageFields]
    /\ cell = [p \in Pkgs |-> EmptyCell]
    /\ lock = [p \in Pkgs |-> "free"]
    /\ wr = [w \in Downloaders |-> WrIdle]
    /\ rd = [r \in Readers |-> RdIdle]
    /\ cmp = [e \in Comparers |-> CmpIdle]
    /\ ClassIdle /\ VerIdle /\ SelIdle /\ IdxIdle

\* self.tipe == other.tipe && self.dist == other.dist && self.url == other.url
\* && self.ver == other.ver
FieldsEqual(x, y) ==
    x.tipe = y.tipe /\ x.dist = y.dist /\ x.url = y.url /\ x.ver = y.ver

\* the mutex the thread is about to lock
WaitsOn(e) == IF cmp[e].pc = "lockSelf" THEN cmp[e].l ELSE cmp[e].r

\* the guards a thread holds are dropped: orderly, or while it unwinds
Released(e, to) == [p \in DOMAIN lock |-> IF lock[p] = e THEN to ELSE lock[p]]

\* l == r is called: the fields before `data` decide, or the locks are needed
Eq(e, l, r) ==
    /\ cmp[e].pc = "idle"
    /\ cmp' = [cmp EXCEPT ![e] =
                  IF FieldsEqual(meta[l], meta[r])
                  THEN [pc |-> "lockSelf", l |-> l, r |-> r, res |-> None]
                  ELSE [CmpIdle EXCEPT !.res = Some(FALSE)]]
    /\ UNCHANGED <<classVars, verVars, selVars, idxVars, meta, cell, lock, wr, rd>>

\* self.data.lock().unwrap()
EqLockSelf(e) ==
    /\ cmp[e].pc = "lockSelf"
    /\ lock[cmp[e].l] = "free"
    /\ lock' = [lock EXCEPT ![cmp[e].l] = e]
    /\ cmp' = [cmp EXCEPT ![e].pc = "lockOther"]
    /\ UNCHANGED <<classVars, verVars, selVars, idxVars, meta, cell, wr, rd>>

\* other.data.lock().unwrap(), the guard of self.data still held
EqLockOther(e) ==
    /\ cmp[e].pc = "lockOther"
    /\ lock[cmp[e].r] = "free"
    /\ lock' = [lock EXCEPT ![cmp[e].r] = e]
    /\ cmp' = [cmp EXCEPT ![e].pc = "compare"]
    /\ UNCHANGED <<classVars, verVars, selVars, idxVars, meta, cell, wr, rd>>

\* lock() on a mutex the thread itself holds does not return: it blocks for
\* ever (no step) or it panics; the guard held is dropped while unwinding,
\* which poisons the mutex
EqRelockPanics(e) ==
    /\ cmp[e].pc = "lockOther"
    /\ lock[cmp[e].r] = e
    /\ lock' = Released(e, "poisoned")
    /\ cmp' = [cmp EXCEPT ![e].pc = "panicked"]
    /\ UNCHANGED <<classVars, verVars, selVars, idxVars, meta, cell, wr, rd>>

\* lock() on a poisoned mutex is an Err and unwrap() panics
EqLockPoisoned(e) ==
    /\ cmp[e].pc \in {"lockSelf", "lockOther"}
    /\ lock[WaitsOn(e)] = "poisoned"
    /\ lock' = Released(e, "poisoned")
    /\ cmp' = [cmp EXCEPT ![e].pc = "panicked"]
    /\ UNCHANGED <<classVars, verVars, selVars, idxVars, meta, cell, wr, rd>>

\* the two cells and `created` are compared, eq returns, the guards are dropped
EqCompare(e) ==
    /\ cmp[e].pc = "compare"
    /\ cmp' = [cmp EXCEPT ![e] =
                  [CmpIdle EXCEPT !.res =
                      Some(/\ CellValue(cell[cmp[e].l]) = CellValue(cell[cmp[e].r])
                           /\ meta[cmp[e].l].created = meta[cmp[e].r].created)]]
    /\ lock' = Released(e, "free")
    /\ UNCHANGED <<classVars, verVars, selVars, idxVars, meta, cell, wr, rd>>

\* download(): self.data.lock().unwrap() on a poisoned mutex panics
LockDataPoisoned(w) ==
    /\ wr[w].pc = "lock"
    /\ lock[wr[w].p] = "poisoned"
    /\ wr' = [wr EXCEPT ![w] = [WrIdle EXCEPT !.pc = "panicked", !.p = wr[w].p]]
    /\ UNCHANGED <<classVars, verVars, selVars, idxVars, cmp, meta, cell, lock, rd>>

\* data(): self.data.lock().unwrap() on a poisoned mutex panics
DataPoisoned(r, p) ==
    /\ lock[p] = "poisoned"
    /\ rd' = [rd EXCEPT ![r] = [p |-> p, calls |-> 1, got |-> <<"panicked">>]]
    /\ UNCHANGED <<classVars, verVars, selVars, idxVars, cmp, meta, cell, lock, wr>>

NextEq ==
    \/ \E e \in Comparers, l, r \in Pkgs : Eq(e, l, r)
    \/ \E e \in Comparers : EqLockSelf(e)
    \/ \E e \in Comparers : EqLockOther(e)
    \/ \E e \in Comparers : EqRelockPanics(e)
    \/ \E e \in Comparers : EqLockPoisoned(e)
    \/ \E e \in Comparers : EqCompare(e)
    \/ \E w \in Downloaders, p \in Pkgs : Download(w, p)
    \/ \E w \in Downloaders : FetchOk(w)
    \/ \E w \in Downloaders : DownloadFailed(w)
    \/ \E w \in Downloaders : LockData(w)
    \/ \E w \in Downloaders : WriteByte(w)
    \/ \E w \in Downloaders : UnlockData(w)
    \/ \E w \in Downloaders : LockDataPoisoned(w)
    \/ \E r \in Readers, p \in Pkgs : Data(r, p)
    \/ \E r \in Readers, p \in Pkgs : DataPoisoned(r, p)

SpecEq == InitEq /\ [][NextEq]_vars

\* a set of comparing threads each of which waits for a mutex that a thread
\* of the set holds: none of them can ever go on
Deadlocked(D) ==
    /\ D # {}
    /\ \A e \in D : /\ cmp[e].pc \in {"lockSelf", "lockOther"}
                    /\ lock[WaitsOn(e)] \in D

\* C14 (as claimed): a comparison of two packages always completes: no
\* comparing thread panics, and no comparing threads wait for each other's
\* mutex (or for their own) for ever, whether a package is compared with
\* itself, the same pair is compared in both orders at once, or download and
\* data run on the operands meanwhile.
C14_EqAlwaysCompletes ==
    /\ \A e \in DOMAIN cmp : cmp[e].pc # "panicked"
    /\ \A D \in SUBSET (DOMAIN cmp) : ~Deadlocked(D)

(***************************************************************************)
(* The index generators.  Text is a sequence of bytes.  The digests, the   *)
(* compressors, the control data of an archive and the templates are       *)
(* libraries and files outside src/; they are given small deterministic    *)
(* stand-ins that keep what the generators rely on: a digest and a         *)
(* compressed form are functions of the bytes alone, and a compressed form *)
(* differs in length from its input.                                       *)
(***************************************************************************)
Whitespace == {9, 10, 13, 32}

RECURSIVE SumBytes(_)
SumBytes(b) == IF b = <<>> THEN 0 ELSE Head(b) + SumBytes(Tail(b))

RECURSIVE Concat(_)
Concat(ss) == IF ss = <<>> THEN <<>> ELSE Head(ss) \o Concat(Tail(ss))

\* hashsum::<T>(data): one hexadecimal digit stands for the digest
hashsum(alg, data) == <<48 + ((alg + SumBytes(data) + Len(data)) % 10)>>
Md5 == 1
Sha1 == 2
Sha256 == 3
Sha512 == 4

\* the run lengths of the data: <<count, byte, count, byte, ...>>
RECURSIVE RunLength(_)
RunLength(b) ==
    IF b = <<>> THEN <<>>
    ELSE LET same == {n \in 1..Len(b) : \A i \in 1..n : b[i] = b[1]}
             n == SetMax(same)
         IN  <<n, b[1]>> \o RunLength(SubSeq(b, n + 1, Len(b)))

\* gzip_compression: a header whose modification time is 0, the compressed
\* data, the check sum and the length of the input
gzip_compression(data) ==
    <<31, 139, 8, 0, 0, 0, 0, 0, 0, 255>> \o RunLength(data)
        \o <<SumBytes(data) % 256, Len(data) % 256>>

\* zstd::encode_all(data, 0)
encode_all(data) == <<40, 181, 47, 253>> \o RunLength(data)

\* str::trim_end and str::trim
RECURSIVE trim_end(_)
trim_end(t) ==
    IF t # <<>> /\ t[Len(t)] \in Whitespace THEN trim_end(SubSeq(t, 1, Len(t) - 1)) ELSE t
RECURSIVE trim_start(_)
trim_start(t) == IF t # <<>> /\ Head(t) \in Whitespace THEN trim_start(Tail(t)) ELSE t
trim(t) == trim_end(trim_start(t))

\* DebAnalyzer::new(&data).get_control_data(): the control stanza of the archive
get_control_data(data) == <<80>> \o data \o <<10>>

\* package.version() and package.file_name()
version(p) == <<50>>
file_name(p) == IF p = "a" THEN <<97>> ELSE <<98>>

get_package_metadata_empty_on_missing(p, data) ==
    IF data = None
    THEN Some([control |-> <<>>, size |-> 0, md5 |-> <<>>, sha1 |-> <<>>,
               sha256 |-> <<>>, sha512 |-> <<>>,
               filename |-> <<47>> \o version(p) \o <<47>> \o file_name(p)])
    ELSE Some([control |-> trim_end(get_control_data(Unwrap(data))),
               size |-> Len(Unwrap(data)),
               md5 |-> hashsum(Md5, Unwrap(data)),
               sha1 |-> hashsum(Sha1, Unwrap(data)),
               sha256 |-> hashsum(Sha256, Unwrap(data)),
               sha512 |-> hashsum(Sha512, Unwrap(data)),
               filename |-> <<47>> \o version(p) \o <<47>> \o file_name(p)])

\* get_package_metadata: Err when package.data() is None
get_package_metadata(p, data) ==
    IF data = None THEN None
    ELSE Some([control |-> trim_end(get_control_data(Unwrap(data))),
               size |-> Len(Unwrap(data)),
               md5 |-> hashsum(Md5, Unwrap(data)),
               sha1 |-> hashsum(Sha1, Unwrap(data)),
               sha256 |-> hashsum(Sha256, Unwrap(data)),
               sha512 |-> hashsum(Sha512, Unwrap(data)),
               filename |-> <<47>> \o version(p) \o <<47>> \o file_name(p)])

\* .filter_map(Result::ok): one more result of the iterator
FilterMapOk(acc, r) == IF IsSome(r) THEN Append(acc, Unwrap(r)) ELSE acc

\* the template "Packages": one paragraph per package, a blank line after each
StanzaText(st) ==
    st.control \o <<10>> \o st.filename \o <<10>> \o <<48 + st.size>> \o <<10>>
        \o st.md5 \o st.sha1 \o st.sha256 \o st.sha512 \o <<10, 10>>

RenderPackageIndex(sts) == Concat([i \in 1..Len(sts) |-> StanzaText(sts[i])])

\* index.render().unwrap().trim().to_owned()
PackageIndexText(sts) == trim(RenderPackageIndex(sts))

pathPackages == <<80>>
pathPackagesGz == <<80, 46, 103, 122>>

ReleaseFilesPlainSizeTwice(packages) ==
    LET packages_gz == gzip_compression(packages)
    IN  << [path |-> pathPackages, size |-> Len(packages),
            md5 |-> hashsum(Md5, packages), sha1 |-> hashsum(Sha1, packages),
            sha256 |-> hashsum(Sha256, packages), sha512 |-> hashsum(Sha512, packages)],
           [path |-> pathPackagesGz, size |-> Len(packages),
            md5 |-> hashsum(Md5, packages_gz), sha1 |-> hashsum(Sha1, packages_gz),
            sha256 |-> hashsum(Sha256, packages_gz),
            sha512 |-> hashsum(Sha512, packages_gz)] >>

\* `files` of get_release_index
ReleaseFiles(packages) ==
    LET packages_gz == gzip_compression(packages)
    IN  << [path |-> pathPackages, size |-> Len(packages),
            md5 |-> hashsum(Md5, packages), sha1 |-> hashsum(Sha1, packages),
            sha256 |-> hashsum(Sha256, packages), sha512 |-> hashsum(Sha512, packages)],
           [path |-> pathPackagesGz, size |-> Len(packages_gz),
            md5 |-> hashsum(Md5, packages_gz), sha1 |-> hashsum(Sha1, packages_gz),
            sha256 |-> hashsum(Sha256, packages_gz),
            sha512 |-> hashsum(Sha512, packages_gz)] >>

\* DateTime::to_rfc2822: the time to the second
to_rfc2822(t) == t \div 2

\* Metadata::create
MetadataCreate(content) ==
    [open_size |-> Len(content), open_sha256 |-> hashsum(Sha256, content),
     size |-> Len(encode_all(content)),
     sha256 |-> hashsum(Sha256, encode_all(content))]

\* the templates primary.xml, filelists.xml and other.xml: an opening of
\* `kind` bytes and one element per package
RenderListing(kind, packages) ==
    [i \in 1..kind |-> 60]
        \o Concat([i \in 1..Len(packages) |-> <<60, 48 + packages[i].pkg_time, 62>>])
get_primary_index(packages) == RenderListing(1, packages)
get_filelists_index(packages) == RenderListing(2, packages)
get_other_index(packages) == RenderListing(3, packages)

\* the scan for the latest pkg_time, from 0
RECURSIVE LatestPkgTime(_, _)
LatestPkgTime(packages, timestamp) ==
    IF packages = <<>> THEN timestamp
    ELSE LatestPkgTime(Tail(packages),
                       IF Head(packages).pkg_time > timestamp
                       THEN Head(packages).pkg_time ELSE timestamp)

\* RepoMD::create
RepoMDCreate(primary, filelists, other, timestamp) ==
    [text |-> <<>>, date |-> 0, files |-> <<>>,
     data |-> <<MetadataCreate(primary), MetadataCreate(filelists), MetadataCreate(other)>>,
     timestamp |-> timestamp]

(***************************************************************************)
(* Index generation as a state machine.  Packages are populated while the  *)
(* generator runs; the generator reads one package per step.               *)
(***************************************************************************)
IdxPayloads == {<<7>>, <<8, 9>>}

Slices ==
    {s \in UNION {[1..n -> Pkgs] : n \in 0..MaxSlice} :
        \A i, j \in 1..Len(s) : i # j => s[i] # s[j]}

\* pkg_time is compared with, and stored in, an i64 (RepoMD.timestamp): a
\* time before the epoch is a negative number of seconds
RpmPackages == [pkg_time : -1..MaxPkgTime]
RpmSlices == UNION {[1..n -> RpmPackages] : n \in 0..MaxRpms}

InitIndex ==
    /\ meta = [p \in Pkgs |->
                 Unwrap(detect_package(pkgDash \o kwUbuntu \o <<"2", "0", ".", "0", "4">> \o extDeb))]
    /\ cell = [p \in Pkgs |-> EmptyCell]
    /\ lock = [p \in Pkgs |-> "free"]
    /\ wr = <<>> /\ rd = <<>> /\ cmp = <<>>
    /\ created \in [Pkgs -> 0..MaxCreated]
    /\ now = 2 * MaxCreated
    /\ slice \in Slices
    /\ gpc = "idle" /\ gop = "none" /\ date = 0
    /\ seen = <<>> /\ stanzas = <<>> /\ doc = NoDoc /\ rpms = <<>>
    /\ ClassIdle /\ VerIdle /\ SelIdle

\* time passes
Tick ==
    /\ now < 2 * MaxTime + 1
    /\ now' = now + 1
    /\ UNCHANGED <<classVars, verVars, selVars, pkgVars, created, slice, gpc, gop, date, seen, stanzas, doc, rpms>>

\* the critical section of download or set_data: *guard = Some(data)
Populate(p) ==
    /\ lock[p] = "free"
    /\ \E b \in IdxPayloads : cell' = [cell EXCEPT ![p] = [some |-> TRUE, bytes |-> b]]
    /\ UNCHANGED <<classVars, verVars, selVars, idxVars, cmp, meta, lock, wr, rd>>

\* a call of get_package_index
StartPackageIndex ==
    /\ gpc = "idle"
    /\ gpc' = "meta" /\ gop' = "packages"
    /\ date' = 0 /\ seen' = <<>> /\ stanzas' = <<>> /\ doc' = NoDoc /\ rpms' = <<>>
    /\ UNCHANGED <<classVars, verVars, selVars, pkgVars, created, now, slice>>

\* a call of get_release_index: the date is taken, get_package_index is called
StartReleaseIndex ==
    /\ gpc = "idle"
    /\ gpc' = "meta" /\ gop' = "release"
    /\ date' = to_rfc2822(now)
    /\ seen' = <<>> /\ stanzas' = <<>> /\ doc' = NoDoc /\ rpms' = <<>>
    /\ UNCHANGED <<classVars, verVars, selVars, pkgVars, created, now, slice>>

\* the next package of the iterator: get_package_metadata, filter_map(Result::ok)
GetPackageMetadata ==
    /\ gpc = "meta"
    /\ Len(seen) < Len(slice)
    /\ LET p == slice[Len(seen) + 1]
       IN  /\ lock[p] = "free"
           /\ seen' = Append(seen, CellValue(cell[p]))
           /\ stanzas' = FilterMapOk(stanzas, get_package_metadata(p, CellValue(cell[p])))
    /\ UNCHANGED <<classVars, verVars, selVars, pkgVars, created, now, slice, gpc, gop, date, doc, rpms>>

\* get_package_index returns the rendered text
FinishPackageIndex ==
    /\ gpc = "meta" /\ gop = "packages"
    /\ Len(seen) = Len(slice)
    /\ doc' = [NoDoc EXCEPT !.text = PackageIndexText(stanzas)]
    /\ gpc' = "done"
    /\ UNCHANGED <<classVars, verVars, selVars, pkgVars, created, now, slice, gop, date, seen, stanzas, rpms>>

\* get_release_index: the rest of it, once get_package_index has returned
FinishReleaseIndex ==
    /\ gpc = "meta" /\ gop = "release"
    /\ Len(seen) = Len(slice)
    /\ doc' = [NoDoc EXCEPT !.text = PackageIndexText(stanzas),
                            !.date = date,
                            !.files = ReleaseFiles(PackageIndexText(stanzas))]
    /\ gpc' = "done"
    /\ UNCHANGED <<classVars, verVars, selVars, pkgVars, created, now, slice, gop, date, seen, stanzas, rpms>>

\* get_repomd_index
GetRepomdIndex ==
    /\ gpc = "idle"
    /\ \E rs \in RpmSlices :
         /\ rpms' = rs
         /\ doc' = RepoMDCreate(get_primary_index(rs), get_filelists_index(rs),
                                get_other_index(rs), LatestPkgTime(rs, 0))
    /\ gpc' = "done" /\ gop' = "repomd"
    /\ date' = 0 /\ seen' = <<>> /\ stanzas' = <<>>
    /\ UNCHANGED <<classVars, verVars, selVars, pkgVars, created, now, slice>>

\* the caller takes the document; the generator keeps nothing between calls
Return ==
    /\ gpc = "done"
    /\ gpc' = "idle" /\ gop' = "none"
    /\ date' = 0 /\ seen' = <<>> /\ stanzas' = <<>> /\ doc' = NoDoc /\ rpms' = <<>>
    /\ UNCHANGED <<classVars, verVars, selVars, pkgVars, created, now, slice>>

NextIndex ==
    \/ Tick
    \/ Return
    \/ \E p \in Pkgs : Populate(p)
    \/ StartPackageIndex
    \/ StartReleaseIndex
    \/ GetPackageMetadata
    \/ FinishPackageIndex
    \/ FinishReleaseIndex
    \/ GetRepomdIndex

SpecIndex == InitIndex /\ [][NextIndex]_vars

\* the positions of the packages read so far whose data() was Some
Populated == {i \in 1..Len(seen) : IsSome(seen[i])}
PopulatedInOrder == SelectSeq(Indices(seen), LAMBDA i : IsSome(seen[i]))

\* the number of paragraphs of a text whose paragraphs are parted by a blank line
Paragraphs(t) ==
    IF t = <<>> THEN 0
    ELSE 1 + Cardinality({i \in 1..(Len(t) - 1) : t[i] = 10 /\ t[i + 1] = 10})

\* C3: package_index makes one stanza for each package whose raw data is
\* populated, in the order of the slice, and skips a package without raw data
\* without aborting: the listing has as many stanzas as packages had raw data.
C3_OneStanzaPerPopulated ==
    gop \in {"packages", "release"} =>
        /\ Len(stanzas) = Cardinality(Populated)
        /\ \A k \in 1..Len(stanzas) :
              LET i == PopulatedInOrder[k]
              IN  /\ stanzas[k].filename = <<47>> \o version(slice[i]) \o <<47>> \o file_name(slice[i])
                  /\ stanzas[k].size = Len(Unwrap(seen[i]))
        /\ gpc = "done" =>
              /\ Len(seen) = Len(slice)
              /\ Paragraphs(doc.text) = Cardinality(Populated)

\* a listing of one stanza for two packages, the first of them without raw data
C3_Witness ==
    /\ gpc = "done" /\ gop = "packages"
    /\ Len(slice) = 2 /\ seen[1] = None /\ IsSome(seen[2])
    /\ Paragraphs(doc.text) = 1
    /\ stanzas[1].filename = <<47>> \o version(slice[2]) \o <<47>> \o file_name(slice[2])

\* C4: in a Release document the size of the Packages entry is the length of
\* the text of package_index and the size of the Packages.gz entry is the
\* length of the gzip of that text; in repomd the open size and the size of
\* each listing are the lengths of its plain and compressed text; the digests
\* are taken over the same bytes.
C4_SizesOfListings ==
    /\ (gpc = "done" /\ gop = "release") =>
          LET text == PackageIndexText(stanzas)
              gz == gzip_compression(text)
          IN  /\ doc.text = text
              /\ Len(doc.files) = 2
              /\ doc.files[1].path = pathPackages /\ doc.files[2].path = pathPackagesGz
              /\ doc.files[1].size = Len(text)
              /\ doc.files[2].size = Len(gz)
              /\ doc.files[1].md5 = hashsum(Md5, text) /\ doc.files[2].md5 = hashsum(Md5, gz)
              /\ doc.files[1].sha1 = hashsum(Sha1, text) /\ doc.files[2].sha1 = hashsum(Sha1, gz)
              /\ doc.files[1].sha256 = hashsum(Sha256, text)
              /\ doc.files[2].sha256 = hashsum(Sha256, gz)
              /\ doc.files[1].sha512 = hashsum(Sha512, text)
              /\ doc.files[2].sha512 = hashsum(Sha512, gz)
    /\ (gpc = "done" /\ gop = "repomd") =>
          LET listing == <<get_primary_index(rpms), get_filelists_index(rpms),
                           get_other_index(rpms)>>
          IN  /\ Len(doc.data) = 3
              /\ \A i \in 1..3 :
                    /\ doc.data[i].open_size = Len(listing[i])
                    /\ doc.data[i].size = Len(encode_all(listing[i]))
                    /\ doc.data[i].open_sha256 = hashsum(Sha256, listing[i])
                    /\ doc.data[i].sha256 = hashsum(Sha256, encode_all(listing[i]))

\* a Release document over two stanzas whose two sizes differ
C4_Witness ==
    /\ gpc = "done" /\ gop = "release"
    /\ Len(stanzas) = 2
    /\ doc.files[1].size = Len(doc.text)
    /\ doc.files[1].size # doc.files[2].size

\* C10 (as claimed): the date of the Release document is the greatest
\* created_at of the packages handed in, whatever the time of the call.
C10_DateIsMaxCreated ==
    (gpc = "done" /\ gop = "release" /\ slice # <<>>) =>
        doc.date = SetMax({created[slice[i]] : i \in 1..Len(slice)})

PkgTimes == {rpms[i].pkg_time : i \in 1..Len(rpms)}

\* C13 (as claimed): the timestamp of the repomd document is the greatest
\* pkg_time of the packages handed in, and 0 when none is handed in.
C13_TimestampIsMaxPkgTime ==
    (gpc = "done" /\ gop = "repomd") =>
        doc.timestamp = IF rpms = <<>> THEN 0 ELSE SetMax(PkgTimes)

(***************************************************************************)
(* What the classifier's claims speak of, stated from the file name alone. *)
(***************************************************************************)
str_deb == <<"d", "e", "b">>
str_rpm == <<"r", "p", "m">>

HasDot(s) == \E i \in 1..Len(s) : s[i] = "."
LastDot(s) == SetMax({i \in 1..Len(s) : s[i] = "."})
FinalSuffix(s) == SubSeq(s, LastDot(s) + 1, Len(s))
TextBeforeFinalDot(s) == SubSeq(s, 1, LastDot(s) - 1)

HasKeyword(t) == Contains(t, kwUbuntu) \/ Contains(t, kwDebian) \/ Contains(t, kwFedora)
StemSections(s) == SplitOn(TextBeforeFinalDot(s), {"-", "_"})
KeywordSections(s) == {i \in 1..Len(StemSections(s)) : HasKeyword(StemSections(s)[i])}

\* C7 (as claimed): detect_package succeeds exactly when the text after the
\* final '.' of the name is "deb" or "rpm" (type Deb, Rpm), fails for every
\* other name, a name without '.' included, and on success the distribution
\* is detected in the text before that final '.'.
C7_AcceptsExactlyDebRpm ==
    cpc = "done" =>
        /\ IsSome(pkg) <=> (HasDot(name) /\ FinalSuffix(name) \in {str_deb, str_rpm})
        /\ IsSome(pkg) =>
              /\ Unwrap(pkg).tipe = (IF FinalSuffix(name) = str_deb THEN "Deb" ELSE "Rpm")
              /\ Unwrap(pkg).dist = ScanSections(StemSections(name), None)

\* C8 (as claimed): the FIRST section of the stem that contains ubuntu, debian
\* or fedora determines the package's Dist; no such section gives None.
C8_FirstTokenWins ==
    (cpc = "done" /\ IsSome(pkg)) =>
        Unwrap(pkg).dist =
            IF KeywordSections(name) = {} THEN None
            ELSE SectionDist(StemSections(name)[SetMin(KeywordSections(name))], None)

\* C8 (amended): the LAST section of the stem that contains ubuntu, debian or
\* fedora determines the package's Dist (family by the first keyword, in the
\* order ubuntu, debian, fedora, that the section contains; version parsed
\* from that section); no such section gives None.
C8_LastTokenWins ==
    (cpc = "done" /\ IsSome(pkg)) =>
        Unwrap(pkg).dist =
            IF KeywordSections(name) = {} THEN None
            ELSE SectionDist(StemSections(name)[SetMax(KeywordSections(name))], None)

\* a classified name with two keyword sections that name different distributions
C8_Witness ==
    /\ cpc = "done" /\ IsSome(pkg)
    /\ Cardinality(KeywordSections(name)) >= 2
    /\ SectionDist(StemSections(name)[SetMin(KeywordSections(name))], None)
         # SectionDist(StemSections(name)[SetMax(KeywordSections(name))], None)
    /\ Unwrap(pkg).dist
         = SectionDist(StemSections(name)[SetMax(KeywordSections(name))], None)

FirstBoundary(t) ==
    CHOOSE i \in 1..(Len(t) - 1) :
        /\ t[i] \in Letters /\ t[i + 1] \in Digits
        /\ \A j \in 1..(i - 1) : ~(t[j] \in Letters /\ t[j + 1] \in Digits)
HasBoundary(t) == \E i \in 1..(Len(t) - 1) : t[i] \in Letters /\ t[i + 1] \in Digits
NumericDotted(s) ==
    /\ s # <<>> /\ s[1] \in Digits /\ s[Len(s)] \in Digits
    /\ \A i \in 1..Len(s) : s[i] \in Digits \cup {"."}
    /\ \A i \in 1..(Len(s) - 1) : ~(s[i] = "." /\ s[i + 1] = ".")
    /\ Cardinality({i \in 1..Len(s) : s[i] = "."}) <= 2

====
